---------------------------- MODULE Spec2Model ----------------------------
(***************************************************************************)
(* Model of abipy/dfpt/ddb.py: the DDB text-file reader (DdbFile) and the  *)
(* Born-effective-charge container (Becs).                                 *)
(*                                                                         *)
(* A file is a sequence of raw lines; a line is a string.  The Python     *)
(* string methods the reader uses (strip, split, startswith, replace, in,  *)
(* float, int) are modelled character by character.  The module follows    *)
(* the Python 2 semantics the source was written for (map returns a list). *)
(* Numbers are exact decimals m * 10^e instead of IEEE doubles.            *)
(***************************************************************************)
EXTENDS Integers, Sequences, FiniteSets, TLC

\* F applied to the value of x, which is computed once
Let(x, F(_)) == CHOOSE y \in {F(v) : v \in {x}} : TRUE

(***************************************************************************)
(* Python string methods                                                   *)
(***************************************************************************)
Ch(s, i) == SubSeq(s, i, i)

\* str.startswith(p)
StartsWith(s, p) == Len(s) >= Len(p) /\ SubSeq(s, 1, Len(p)) = p

\* p occurs in s at position i
OccursAt(s, p, i) == SubSeq(s, i, i + Len(p) - 1) = p

\* p in s
Contains(s, p) == \E i \in 1..(Len(s) - Len(p) + 1) : OccursAt(s, p, i)

\* str.find(p) + 1: the position of the first occurrence of p in s, or 0
Find(s, p) ==
    IF Contains(s, p)
    THEN CHOOSE i \in 1..(Len(s) - Len(p) + 1) :
            OccursAt(s, p, i) /\ \A j \in 1..(i - 1) : ~OccursAt(s, p, j)
    ELSE 0

RECURSIVE LStrip(_)
LStrip(s) == IF Len(s) > 0 /\ Ch(s, 1) = " " THEN LStrip(Tail(s)) ELSE s

RECURSIVE RStrip(_)
RStrip(s) ==
    IF Len(s) > 0 /\ Ch(s, Len(s)) = " "
    THEN RStrip(SubSeq(s, 1, Len(s) - 1))
    ELSE s

\* str.strip()
Strip(s) == RStrip(LStrip(s))

\* str.replace(old, new): every non-overlapping occurrence, left to right
RECURSIVE Replace(_, _, _)
Replace(s, old, new) ==
    Let(Find(s, old),
        LAMBDA i : IF i = 0 THEN s
                   ELSE SubSeq(s, 1, i - 1) \o new
                        \o Replace(SubSeq(s, i + Len(old), Len(s)), old, new))

RECURSIVE SplitFrom(_, _, _)
SplitFrom(s, i, cur) ==
    IF i > Len(s) THEN (IF cur = "" THEN <<>> ELSE <<cur>>)
    ELSE IF Ch(s, i) = " "
         THEN (IF cur = "" THEN SplitFrom(s, i + 1, "")
               ELSE <<cur>> \o SplitFrom(s, i + 1, ""))
         ELSE SplitFrom(s, i + 1, cur \o Ch(s, i))

\* str.split(): the whitespace-separated tokens
Split(s) == SplitFrom(s, 1, "")

(***************************************************************************)
(* Python float() and int() on a token                                     *)
(***************************************************************************)
DigitChars == <<"0", "1", "2", "3", "4", "5", "6", "7", "8", "9">>

IsDigit(c) == \E d \in 1..10 : DigitChars[d] = c

DigitVal(c) == (CHOOSE d \in 1..10 : DigitChars[d] = c) - 1

RECURSIVE AllDigits(_)
AllDigits(s) == Len(s) = 0 \/ (IsDigit(Ch(s, 1)) /\ AllDigits(Tail(s)))

RECURSIVE DigitsVal(_, _)
DigitsVal(s, acc) ==
    IF Len(s) = 0 THEN acc ELSE DigitsVal(Tail(s), 10 * acc + DigitVal(Ch(s, 1)))

HasSign(s) == Len(s) > 0 /\ Ch(s, 1) \in {"+", "-"}

Unsigned(s) == IF HasSign(s) THEN Tail(s) ELSE s

SignOf(s) == IF Len(s) > 0 /\ Ch(s, 1) = "-" THEN -1 ELSE 1

\* int(tok) succeeds: [sign] digits
IsInt(tok) == Len(Unsigned(tok)) > 0 /\ AllDigits(Unsigned(tok))

\* position of the first character of s that is in cs, or 0
FirstOf(s, cs) ==
    IF \E i \in 1..Len(s) : Ch(s, i) \in cs
    THEN CHOOSE i \in 1..Len(s) :
            Ch(s, i) \in cs /\ \A j \in 1..(i - 1) : Ch(s, j) \notin cs
    ELSE 0

\* s cut at position p (0: not cut): the text before p, the text after it
CutAt(s, p) ==
    [before |-> IF p = 0 THEN s ELSE SubSeq(s, 1, p - 1),
     after |-> IF p = 0 THEN "" ELSE SubSeq(s, p + 1, Len(s)),
     cut |-> p # 0]

\* the parts of intpart [. fracpart] once the exponent is cut off
MantissaParts(m, x) == [ip |-> m.before, fp |-> m.after, hasexp |-> x.cut, ex |-> x.after]

\* the parts of [sign] intpart [. fracpart] [(e|E) [sign] exppart]
FloatParts(tok) ==
    Let(Unsigned(tok),
        LAMBDA u : Let(CutAt(u, FirstOf(u, {"e", "E"})),
            LAMBDA x : Let(CutAt(x.before, FirstOf(x.before, {"."})),
                LAMBDA m : MantissaParts(m, x))))

FloatPartsOk(p) ==
    /\ AllDigits(p.ip) /\ AllDigits(p.fp)
    /\ Len(p.ip) + Len(p.fp) > 0
    /\ p.hasexp => IsInt(p.ex)

\* float(tok) succeeds (finite decimal literals; "nan" and "inf" are not
\* among the tokens of the modelled files)
IsFloat(tok) == Let(FloatParts(tok), LAMBDA p : FloatPartsOk(p))

RECURSIVE Normalize(_, _)
Normalize(m, e) ==
    IF m = 0 THEN [m |-> 0, e |-> 0]
    ELSE IF m % 10 = 0 THEN Normalize(m \div 10, e + 1)
    ELSE [m |-> m, e |-> e]

\* A number is [t, m, e]: the Python type t and the value m * 10^e.
\* An int keeps e = 0; a float is normalised so that equal values are equal.
IntValue(tok) ==
    [t |-> "int", m |-> SignOf(tok) * DigitsVal(Unsigned(tok), 0), e |-> 0]

\* the exponent written in the token
ExponentOf(p) == IF p.hasexp THEN SignOf(p.ex) * DigitsVal(Unsigned(p.ex), 0) ELSE 0

FloatOf(n) == [t |-> "float", m |-> n.m, e |-> n.e]

FloatValue(tok) ==
    Let(FloatParts(tok),
        LAMBDA p : Let(Normalize(SignOf(tok) * DigitsVal(p.ip \o p.fp, 0),
                                 ExponentOf(p) - Len(p.fp)),
                       LAMBDA n : FloatOf(n)))


(***************************************************************************)
(* DdbFile._parse_header                                                   *)
(***************************************************************************)
\* the two lines that end the header section
HeaderEnd == {"Description of the potentials (KB energies)",
              "No information on the potentials yet"}

\* index (enumerate, from 0) of the first line at which key/value parsing starts
HeaderStart == 6

\* parse = float if "." in tokens[0] else int
ParserFor(tok) == IF Contains(tok, ".") THEN "float" ELSE "int"

\* parse(tok) raises ValueError
ParseFails(parse, tok) == IF parse = "float" THEN ~IsFloat(tok) ELSE ~IsInt(tok)

ParseTok(parse, tok) == IF parse = "float" THEN FloatValue(tok) ELSE IntValue(tok)

\* map(parse, tokens), Python 2: the whole list is built, or ValueError
MapFails(parse, tokens) == \E j \in 1..Len(tokens) : ParseFails(parse, tokens[j])

MapParse(parse, tokens) == [j \in 1..Len(tokens) |-> ParseTok(parse, tokens[j])]

Raise(st, kind) == [st EXCEPT !.status = "raise", !.err = kind]

\* keyvals.append((key, map(parse, tokens)))
AppendKey(st, key, parse, rest) ==
    IF MapFails(parse, rest) THEN Raise(st, "ValueError")
    ELSE [st EXCEPT !.keyvals = Append(@, [key |-> key, vals |-> MapParse(parse, rest)])]

\* the except ValueError branch: "We have a new key"
NewKey(st, tokens) ==
    IF Len(tokens) = 1 THEN Raise(st, "IndexError")
    ELSE Let(ParserFor(tokens[2]),
             LAMBDA parse : AppendKey(st, Head(tokens), parse, Tail(tokens)))

\* keyvals[-1][1].extend(map(parse, tokens)); a ValueError of map leads to
\* the except branch
ExtendLast(st, parse, tokens) ==
    IF MapFails(parse, tokens) THEN NewKey(st, tokens)
    ELSE [st EXCEPT !.keyvals[Len(st.keyvals)].vals = @ \o MapParse(parse, tokens)]

\* the try branch: a line whose first token float() accepts
Continuation(st, tokens) ==
    IF Len(st.keyvals) = 0 THEN Raise(st, "IndexError")
    ELSE Let(ParserFor(tokens[1]), LAMBDA parse : ExtendLast(st, parse, tokens))

\* the try statement on the tokens of a line
KeyValTokens(st, tokens) ==
    IF IsFloat(tokens[1]) THEN Continuation(st, tokens) ELSE NewKey(st, tokens)

\* the body of "if i >= 6"
KeyValLine(st, line) ==
    Let(Split(Replace(Replace(line, "D+", "E+"), "D-", "E-")),
        LAMBDA tokens : KeyValTokens(st, tokens))

\* version = int(line.split()[-1])
VersionLine(st, last) ==
    IF ~IsInt(last) THEN Raise(st, "ValueError")
    ELSE [st EXCEPT !.hasversion = TRUE, !.version = IntValue(last)]

\* line.split()[-1]
LastToken(toks) == toks[Len(toks)]

\* AfterVersion with the key/value section starting one line early
AfterVersionEarly(v, line) ==
    IF v.status = "raise" THEN v
    ELSE IF line \in HeaderEnd THEN [v EXCEPT !.status = "break", !.i = @ + 1]
    ELSE IF v.i >= HeaderStart - 1
         THEN Let(KeyValLine(v, line),
                  LAMBDA r : IF r.status = "raise" THEN r ELSE [r EXCEPT !.i = @ + 1])
         ELSE [v EXCEPT !.i = @ + 1]

\* the rest of the iteration once the version is looked for
AfterVersion(v, line) ==
    IF v.status = "raise" THEN v
    ELSE IF line \in HeaderEnd THEN [v EXCEPT !.status = "break", !.i = @ + 1]
    ELSE IF v.i >= HeaderStart
         THEN Let(KeyValLine(v, line),
                  LAMBDA r : IF r.status = "raise" THEN r ELSE [r EXCEPT !.i = @ + 1])
         ELSE [v EXCEPT !.i = @ + 1]

\* one iteration of the loop on a stripped line that is not empty; a line
\* that raises is the line the cursor stopped after
StrippedLine(st, line) ==
    IF Contains(line, "Version")
    THEN Let(Let(Split(line), LAMBDA toks : VersionLine(st, LastToken(toks))),
             LAMBDA v : AfterVersion(v, line))
    ELSE AfterVersion(st, line)

\* one iteration of "for i, line in enumerate(self)"
HeaderLine(st, raw) ==
    Let(Strip(raw),
        LAMBDA line : IF line = "" THEN [st EXCEPT !.i = @ + 1]
                      ELSE StrippedLine(st, line))

RECURSIVE HeaderLoop(_, _, _)
HeaderLoop(st, lines, n) ==
    IF n > Len(lines) \/ st.status # "run" THEN st
    ELSE Let(HeaderLine(st, lines[n]), LAMBDA nx : HeaderLoop(nx, lines, n + 1))

HeaderLoopInit ==
    [i |-> 0, keyvals |-> <<>>, hasversion |-> FALSE,
     version |-> [t |-> "int", m |-> 0, e |-> 0], status |-> "run", err |-> "none"]

\* Seek0 when the cursor is left where the last reader stopped
SeekNowhere(cur) == cur

\* self.seek(0): the new position of the file cursor (in lines)
Seek0(cur) == 0

\* the loop of _parse_header, from seek(0) to the end of the file, a break
\* or an exception; enumerate counts from 0 wherever the cursor is
ScanHeader(lines, cur) == HeaderLoop(HeaderLoopInit, lines, Seek0(cur) + 1)

\* the position of the cursor after the loop: the lines read so far
HeaderCursor(st, cur) == Seek0(cur) + (IF st.status = "raise" THEN st.i + 1 ELSE st.i)

(***************************************************************************)
(* The AttrDict of _parse_header.  A value of the dictionary is            *)
(* [kind, data, shape]: a "scalar" (one number), a Python "list" or a      *)
(* numpy "ndarray" (data in C order).                                      *)
(***************************************************************************)
Scalar(v) == [kind |-> "scalar", data |-> <<v>>, shape |-> <<>>]

PyList(vs) == [kind |-> "list", data |-> vs, shape |-> <<Len(vs)>>]

\* if len(value) == 1: value = value[0]
Collapse(vals) == IF Len(vals) = 1 THEN Scalar(vals[1]) ELSE PyList(vals)

KeysOf(keyvals) == {keyvals[j].key : j \in 1..Len(keyvals)}

\* h[key] = value in file order: the last occurrence of a key stays
LastOf(keyvals, key) ==
    CHOOSE j \in 1..Len(keyvals) :
        /\ keyvals[j].key = key
        /\ \A k \in (j + 1)..Len(keyvals) : keyvals[k].key # key

\* h = AttrDict(version=version); for key, value in keyvals: h[key] = value
FlatHeader(version, keyvals) ==
    [k \in KeysOf(keyvals) \cup {"version"} |->
        IF k \in KeysOf(keyvals)
        THEN Collapse(keyvals[LastOf(keyvals, k)].vals)
        ELSE Scalar(version)]

RECURSIVE Pow10(_)
Pow10(n) == IF n <= 0 THEN 1 ELSE 10 * Pow10(n - 1)

\* truncation toward zero of m / d, d > 0
TruncDiv(m, d) == IF m >= 0 THEN m \div d ELSE -((-m) \div d)

\* conversion of a number to the dtype of an array
AsDouble(v) ==
    LET n == Normalize(v.m, v.e) IN [t |-> "float", m |-> n.m, e |-> n.e]

AsInt(v) ==
    [t |-> "int",
     m |-> IF v.e >= 0 THEN v.m * Pow10(v.e) ELSE TruncDiv(v.m, Pow10(-v.e)),
     e |-> 0]

AsType(dtype, v) == IF dtype = "int" THEN AsInt(v) ELSE AsDouble(v)

\* a header count usable as an array dimension: a scalar int
IsDim(val) == val.kind = "scalar" /\ val.data[1].t = "int"

RECURSIVE Product(_)
Product(shape) == IF Len(shape) = 0 THEN 1 ELSE Head(shape) * Product(Tail(shape))

\* np.reshape accepts the shape for an array of n elements (-1: inferred)
ShapeFits(n, shape) ==
    LET unknown == {j \in 1..Len(shape) : shape[j] = -1}
        known == Product([j \in 1..Len(shape) |-> IF shape[j] = -1 THEN 1 ELSE shape[j]])
    IN /\ \A j \in 1..Len(shape) : shape[j] >= -1
       /\ IF unknown = {} THEN known = n
          ELSE Cardinality(unknown) = 1 /\ known > 0 /\ n % known = 0

ResolveShape(n, shape) ==
    LET known == Product([j \in 1..Len(shape) |-> IF shape[j] = -1 THEN 1 ELSE shape[j]])
    IN [j \in 1..Len(shape) |-> IF shape[j] = -1 THEN n \div known ELSE shape[j]]

\* the keys converted to arrays
ArrayKeys == {"kpt", "rprim", "symrel", "tnons", "xred", "znucl"}

ArrayDtype(k) == IF k \in {"symrel", "znucl"} THEN "int" ELSE "double"

\* the arrays dictionary: shape of each key (the counts are scalar ints)
ArrayShape(h, k) ==
    CASE k = "kpt"    -> <<h["nkpt"].data[1].m, 3>>
      [] k = "rprim"  -> <<3, 3>>
      [] k = "symrel" -> <<h["nsym"].data[1].m, 3, 3>>
      [] k = "tnons"  -> <<h["nsym"].data[1].m, 3>>
      [] k = "xred"   -> <<h["natom"].data[1].m, 3>>
      [] k = "znucl"  -> <<-1>>

\* Reshaped with a collapsed value left as the scalar it is
ReshapedUnlessScalar(h, k) ==
    IF h[k].kind = "scalar" THEN h[k]
    ELSE [kind |-> "ndarray",
          data |-> [j \in 1..Len(h[k].data) |-> AsType(ArrayDtype(k), h[k].data[j])],
          shape |-> ResolveShape(Len(h[k].data), ArrayShape(h, k))]

\* h[k] = np.reshape(np.array(h[k], dtype), shape)
Reshaped(h, k) ==
    [kind |-> "ndarray",
     data |-> [j \in 1..Len(h[k].data) |-> AsType(ArrayDtype(k), h[k].data[j])],
     shape |-> ResolveShape(Len(h[k].data), ArrayShape(h, k))]

\* np.array([s.T for s in h.symrel]): element (r, c) of each 3x3 block
\* becomes element (c, r)
TransposeBlocks(a) ==
    [a EXCEPT !.data =
        [j \in 1..Len(a.data) |->
            LET b == (j - 1) \div 9
                r == ((j - 1) % 9) \div 3
                c == (j - 1) % 3
            IN a.data[9 * b + 3 * c + r + 1]]]

\* the exceptions the conversion of key k can raise
ReshapeErrors(h, k) ==
    IF k \notin DOMAIN h THEN {"KeyError"}
    ELSE IF ~ShapeFits(Len(h[k].data), ArrayShape(h, k)) THEN {"ValueError"}
    ELSE {}

\* the part of _parse_header after the loop.  The result is
\* [ok, errs, h]: the returned dictionary, or the exceptions one of which
\* is raised (the arrays are converted in dictionary order, so that with
\* several bad arrays the first one to fail is not fixed by the source).
HeaderFails(es) == [ok |-> FALSE, errs |-> es, h |-> <<>>]

\* the conversion of the flat dictionary h to arrays
ToArrays(h) ==
    IF ~({"nkpt", "nsym", "natom"} \subseteq DOMAIN h) THEN HeaderFails({"AttributeError"})
    ELSE IF \E c \in {"nkpt", "nsym", "natom"} : ~IsDim(h[c]) THEN HeaderFails({"TypeError"})
    ELSE IF \E k \in ArrayKeys : ReshapeErrors(h, k) # {}
         THEN HeaderFails(UNION {ReshapeErrors(h, k) : k \in ArrayKeys})
         ELSE [ok |-> TRUE, errs |-> {},
               h |-> [k \in DOMAIN h |->
                        IF k = "symrel" THEN TransposeBlocks(Reshaped(h, k))
                        ELSE IF k \in ArrayKeys THEN Reshaped(h, k)
                        ELSE h[k]]]

FinishHeader(st) ==
    IF st.status = "raise" THEN HeaderFails({st.err})
    ELSE IF ~st.hasversion THEN HeaderFails({"UnboundLocalError"})
    ELSE Let(FlatHeader(st.version, st.keyvals), LAMBDA h : ToArrays(h))

\* [ok, errs, h] of _parse_header on a file whose cursor is at cur
parse_header(lines, cur) == Let(ScanHeader(lines, cur), LAMBDA st : FinishHeader(st))

(***************************************************************************)
(* DdbFile._read_qpoints                                                   *)
(***************************************************************************)
\* the marker of a q-point record
QptMarker == "qpt"

\* line.startswith("qpt")
IsCandidate(line) == StartsWith(line, QptMarker)

InSeq(x, seq) == \E j \in 1..Len(seq) : seq[j] = x

\* SeeLine without the test on seen
SeeLineAgain(seen, line) == IF IsCandidate(line) THEN Append(seen, line) ELSE seen

\* one iteration of the first loop: a stripped candidate line not seen before
\* is kept
SeeLine(seen, line) ==
    IF IsCandidate(line) /\ ~InSeq(line, seen) THEN Append(seen, line) ELSE seen

RECURSIVE SeenLines(_, _, _)
SeenLines(lines, n, seen) ==
    IF n > Len(lines) THEN seen
    ELSE Let(Let(Strip(lines[n]), LAMBDA line : SeeLine(seen, line)),
             LAMBDA nx : SeenLines(lines, n + 1, nx))

\* tokens.append(line.replace("qpt", ""))
QptText(line) == Replace(line, QptMarker, "")

\* the second loop on one entry of tokens: nums = list(map(float, tok.split()));
\* nums[:3] is kept, nums[3] must exist
QptNums(ts) ==
    IF \E j \in 1..Len(ts) : ~IsFloat(ts[j])
    THEN [ok |-> FALSE, err |-> "ValueError", q |-> <<>>]
    ELSE IF Len(ts) < 4
         THEN [ok |-> FALSE, err |-> "IndexError", q |-> <<>>]
         ELSE [ok |-> TRUE, err |-> "none",
               q |-> <<FloatValue(ts[1]), FloatValue(ts[2]), FloatValue(ts[3])>>]

QptRecord(tok) == Let(Split(tok), LAMBDA ts : QptNums(ts))

\* [ok, err, q]: the rows of the returned array, or the exception of the
\* first entry that cannot be converted
QptRows(recs) ==
    IF \E j \in 1..Len(recs) : ~recs[j].ok
    THEN [ok |-> FALSE,
          err |-> recs[CHOOSE j \in 1..Len(recs) :
                        ~recs[j].ok /\ \A k \in 1..(j - 1) : recs[k].ok].err,
          q |-> <<>>]
    ELSE [ok |-> TRUE, err |-> "none", q |-> [j \in 1..Len(recs) |-> recs[j].q]]

read_qpoints(lines, cur) ==
    Let(SeenLines(lines, Seek0(cur) + 1, <<>>),
        LAMBDA seen :
            Let([j \in 1..Len(seen) |-> QptRecord(QptText(seen[j]))],
                LAMBDA recs : QptRows(recs)))

(***************************************************************************)
(* Arithmetic of guessed_ngqpt on exact decimals.  A coordinate is         *)
(* [inf, m, e]: positive infinity, or m * 10^e.                            *)
(***************************************************************************)
Fin(m, e) == LET n == Normalize(m, e) IN [inf |-> FALSE, m |-> n.m, e |-> n.e]

Inf == [inf |-> TRUE, m |-> 0, e |-> 0]

MinInt(a, b) == IF a <= b THEN a ELSE b

\* a + b
DecAdd(a, b) ==
    LET k == MinInt(a.e, b.e)
    IN Fin(a.m * Pow10(a.e - k) + b.m * Pow10(b.e - k), k)

\* n * a, n an integer
DecScale(n, a) == Fin(n * a.m, a.e)

\* a < b
DecLess(a, b) ==
    IF a.inf THEN FALSE
    ELSE IF b.inf THEN TRUE
    ELSE LET k == MinInt(a.e, b.e)
         IN a.m * Pow10(a.e - k) < b.m * Pow10(b.e - k)

\* np.abs
DecAbs(a) == IF a.m < 0 THEN [a EXCEPT !.m = -a.m] ELSE a

\* np.rint(num / den), num >= 0, den > 0: to nearest, halves to even
RintRatio(num, den) ==
    LET q == num \div den
        r == num % den
    IN IF 2 * r < den THEN q
       ELSE IF 2 * r > den THEN q + 1
       ELSE IF q % 2 = 0 THEN q ELSE q + 1

\* np.rint(1 / a), a > 0 (1 / inf = 0)
RintInverse(a) ==
    IF a.inf THEN 0
    ELSE IF a.e <= 0 THEN RintRatio(Pow10(-a.e), a.m)
    ELSE RintRatio(1, a.m * Pow10(a.e))

(***************************************************************************)
(* DdbFile.guessed_ngqpt                                                   *)
(***************************************************************************)
\* op.rotate_k(frac_coords, wrap_tows=False): the rotation matrix applied to
\* the vector; row r of the result
rotate_k(op, q) ==
    [r \in 1..3 |->
        DecAdd(DecAdd(DecScale(op[r][1], q[1]), DecScale(op[r][2], q[2])),
               DecScale(op[r][3], q[3]))]

\* the union of the stars: one row per (q-point, operation), q-points outermost
all_qpoints(qpts, ops) ==
    [n \in 1..(Len(qpts) * Len(ops)) |->
        rotate_k(ops[((n - 1) % Len(ops)) + 1], qpts[((n - 1) \div Len(ops)) + 1])]

\* ZeroToInf with the zeros left in place
ZeroKept(c) == c

\* q[q == 0] = np.inf
ZeroToInf(c) == IF ~c.inf /\ c.m = 0 THEN Inf ELSE c

\* np.abs(all_qpoints).min(axis=0), one axis
ColMin(col) ==
    col[CHOOSE n \in 1..Len(col) : \A k \in 1..Len(col) : ~DecLess(col[k], col[n])]

AxisMin(rows, ax) ==
    Let([n \in 1..Len(rows) |-> DecAbs(ZeroToInf(rows[n][ax]))], LAMBDA col : ColMin(col))

\* smalls[smalls == 0] = 1
ZeroToOne(c) == IF ~c.inf /\ c.m = 0 THEN Fin(1, 0) ELSE c

\* ngqpt[ngqpt == 0] = 1
NoZero(n) == IF n = 0 THEN 1 ELSE n

\* one component of ngqpt
MeshAxis(rows, ax) == NoZero(RintInverse(ZeroToOne(AxisMin(rows, ax))))

\* MeshOf with a mesh of ones for a zero-size array
MeshOfAnyRows(rows) ==
    IF Len(rows) = 0
    THEN [ok |-> TRUE, err |-> "none", mesh |-> <<1, 1, 1>>]
    ELSE [ok |-> TRUE, err |-> "none", mesh |-> [ax \in 1..3 |-> MeshAxis(rows, ax)]]

\* [ok, err, mesh]: min of a zero-size array raises ValueError
MeshOf(rows) ==
    IF Len(rows) = 0
    THEN [ok |-> FALSE, err |-> "ValueError", mesh |-> <<>>]
    ELSE [ok |-> TRUE, err |-> "none", mesh |-> [ax \in 1..3 |-> MeshAxis(rows, ax)]]

ngqpt_of(qpts, ops) == Let(all_qpoints(qpts, ops), LAMBDA rows : MeshOf(rows))

(***************************************************************************)
(* The DdbFile instance: the cursor of the open file and the values the    *)
(* lazy properties have stored.  A property access is an operator from the *)
(* instance o to [o, out]: the instance afterwards and the outcome, which  *)
(* is a returned value or a raised exception.  errs is the set of          *)
(* exception types one of which is raised; site names the raise statement  *)
(* of ddb.py when the exception is raised by one.  The instance also       *)
(* records which property bodies have been entered: computed since the     *)
(* file was opened, ran during the call in progress.                       *)
(***************************************************************************)
NoValue == [set |-> FALSE, val |-> <<>>]

Cached(v) == [set |-> TRUE, val |-> v]

Return(v) == [kind |-> "return", val |-> v, errs |-> {}, site |-> "none"]

Raises(es, site) == [kind |-> "raise", val |-> <<>>, errs |-> es, site |-> site]

NewDdb ==
    [cursor |-> 0, header |-> NoValue, structure |-> NoValue,
     qpoints |-> NoValue, guessed_ngqpt |-> NoValue,
     computed |-> {}, ran |-> {}]

\* the instance when a call starts
Access(o) == [o EXCEPT !.ran = {}]

\* the instance when the body of property e is entered
Enter(o, e) == [o EXCEPT !.computed = @ \cup {e}, !.ran = @ \cup {e}]

\* the instance and the outcome once the header has been parsed
StoreHeader(o, r) ==
    IF r.ok THEN [o |-> [o EXCEPT !.header = Cached(r.h)], out |-> Return(r.h)]
    ELSE [o |-> o, out |-> Raises(r.errs, "none")]

\* @lazy_property header
header_get(lines, o) ==
    IF o.header.set THEN [o |-> o, out |-> Return(o.header.val)]
    ELSE Let(ScanHeader(lines, o.cursor),
             LAMBDA st : Let(FinishHeader(st),
                 LAMBDA r : StoreHeader([Enter(o, "header") EXCEPT
                                            !.cursor = HeaderCursor(st, o.cursor)], r)))

\* the rotations of the space group built from h.symrel: matrix b, row r
SymOps(h) ==
    [b \in 1..h["symrel"].shape[1] |->
        [r \in 1..3 |-> [c \in 1..3 |->
            h["symrel"].data[9 * (b - 1) + 3 * (r - 1) + c].m]]]

\* Structure.from_abivars(**self.header) with its space group
StructureOf(h) == [natom |-> h["natom"].data[1].m, spacegroup |-> SymOps(h)]

\* the body of structure once self.header has been read
BuildStructure(hd) ==
    IF hd.out.kind = "raise" THEN hd
    ELSE IF "symafm" \notin DOMAIN hd.out.val
         THEN [o |-> hd.o, out |-> Raises({"AttributeError"}, "none")]
         ELSE Let(StructureOf(hd.out.val),
                  LAMBDA sv : [o |-> [hd.o EXCEPT !.structure = Cached(sv)],
                               out |-> Return(sv)])

\* @lazy_property structure
structure_get(lines, o) ==
    IF o.structure.set THEN [o |-> o, out |-> Return(o.structure.val)]
    ELSE Let(header_get(lines, Enter(o, "structure")), LAMBDA hd : BuildStructure(hd))

\* KpointList(self.structure.reciprocal_lattice, frac_coords)
BuildQpoints(sg, q) ==
    IF sg.out.kind = "raise" THEN sg
    ELSE [o |-> [sg.o EXCEPT !.qpoints = Cached(q)], out |-> Return(q)]

\* @lazy_property qpoints: the KpointList of the rows of _read_qpoints
qpoints_get(lines, o) ==
    IF o.qpoints.set THEN [o |-> o, out |-> Return(o.qpoints.val)]
    ELSE Let(read_qpoints(lines, o.cursor),
             LAMBDA r :
                IF ~r.ok
                THEN [o |-> [Enter(o, "qpoints") EXCEPT !.cursor = Len(lines)],
                      out |-> Raises({r.err}, "none")]
                ELSE Let(structure_get(lines, [Enter(o, "qpoints") EXCEPT
                                                  !.cursor = Len(lines)]),
                         LAMBDA sg : BuildQpoints(sg, r.q)))

\* qpoint.frac_coords as coordinates of the mesh arithmetic
FracCoords(q) == [c \in 1..3 |-> Fin(q[c].m, q[c].e)]

\* the body of guessed_ngqpt on the q-points and the structure
GuessMesh(sg, qpts) ==
    IF sg.out.kind = "raise" THEN sg
    ELSE Let(ngqpt_of([j \in 1..Len(qpts) |-> FracCoords(qpts[j])], sg.out.val.spacegroup),
             LAMBDA r :
                IF ~r.ok THEN [o |-> sg.o, out |-> Raises({r.err}, "none")]
                ELSE [o |-> [sg.o EXCEPT !.guessed_ngqpt = Cached(r.mesh)],
                      out |-> Return(r.mesh)])

\* @lazy_property guessed_ngqpt
guessed_ngqpt_get(lines, o) ==
    IF o.guessed_ngqpt.set THEN [o |-> o, out |-> Return(o.guessed_ngqpt.val)]
    ELSE Let(qpoints_get(lines, Enter(o, "guessed_ngqpt")),
             LAMBDA qp :
                IF qp.out.kind = "raise" THEN qp
                ELSE Let(structure_get(lines, qp.o),
                         LAMBDA sg : GuessMesh(sg, qp.out.val)))

\* the keys of params
ParamKeys == {"nkpt", "nsppol", "ecut", "tsmear", "ixc"}

\* the dictionary of params from the header
ParamsOf(hd) ==
    IF hd.out.kind = "raise" THEN hd
    ELSE [o |-> hd.o,
          out |-> Return([k \in DOMAIN hd.out.val \cap ParamKeys |-> hd.out.val[k]])]

\* @property params
params_get(lines, o) ==
    Let(header_get(lines, Enter(o, "params")), LAMBDA hd : ParamsOf(hd))

(***************************************************************************)
(* A q-point selection is None, an integer or a vector of coordinates.     *)
(***************************************************************************)
None == [sel |-> "none", n |-> 0, v |-> <<>>]

IntSel(n) == [sel |-> "int", n |-> n, v |-> <<>>]

VecSel(v) == [sel |-> "vec", n |-> 0, v |-> v]

\* KpointList.index(qpoint): the position of the first equal q-point, -1
\* when there is none (the list then raises)
IndexIn(qpts, v) ==
    IF \E j \in 1..Len(qpts) : qpts[j] = v
    THEN (CHOOSE j \in 1..Len(qpts) :
            qpts[j] = v /\ \A k \in 1..(j - 1) : qpts[k] # v) - 1
    ELSE -1

\* self.qpoints.index(qpoint)
IndexOf(qp, v) ==
    IF qp.out.kind = "raise" THEN qp
    ELSE IF IndexIn(qp.out.val, v) < 0
         THEN [o |-> qp.o, out |-> Raises({"ValueError"}, "none")]
         ELSE [o |-> qp.o, out |-> Return(IndexIn(qp.out.val, v))]

\* DdbFile.qindex
qindex(lines, o, qpoint) ==
    IF qpoint.sel = "int" THEN [o |-> o, out |-> Return(qpoint.n)]
    ELSE Let(qpoints_get(lines, o), LAMBDA qp : IndexOf(qp, qpoint.v))

\* qpoint = self.qpoints[0] and the check of len(self.qpoints)
OnlyQpoint(qp) ==
    IF qp.out.kind = "raise" THEN qp
    ELSE IF Len(qp.out.val) = 0
         THEN [o |-> qp.o, out |-> Raises({"IndexError"}, "none")]
         ELSE IF Len(qp.out.val) # 1
              THEN [o |-> qp.o, out |-> Raises({"ValueError"}, "ambiguous")]
              ELSE [o |-> qp.o, out |-> Return(VecSel(qp.out.val[1]))]

\* lines 221-225 of anaget_phmodes_at_qpoint: the q-point used when none is given
DefaultQpoint(lines, o) == Let(qpoints_get(lines, o), LAMBDA qp : OnlyQpoint(qp))

\* the except clause of line 230: the message of the ValueError formats
\* self.qpoints, whose own exception replaces it
NotInDdb(qp) ==
    IF qp.out.kind = "raise" THEN qp
    ELSE [o |-> qp.o, out |-> Raises({"ValueError"}, "notfound")]

\* lines 227-231: "Check if qpoint is in the DDB"
CheckQpoint(lines, o, qpoint) ==
    Let(qindex(lines, o, qpoint),
        LAMBDA qi :
            IF qi.out.kind = "return" THEN [o |-> qi.o, out |-> Return(qpoint)]
            ELSE Let(qpoints_get(lines, qi.o), LAMBDA qp : NotInDdb(qp)))

\* lines 233-242: the input is built from self.structure, the task is built
\* and started
StartTask(sg, qpoint) ==
    IF sg.out.kind = "raise" THEN [o |-> sg.o, out |-> sg.out, started |-> FALSE]
    ELSE [o |-> sg.o, out |-> Return(qpoint), started |-> TRUE]

\* the call once the q-point is chosen
ModesAt(lines, dq) ==
    IF dq.out.kind = "raise" THEN [o |-> dq.o, out |-> dq.out, started |-> FALSE]
    ELSE Let(CheckQpoint(lines, dq.o, dq.out.val),
             LAMBDA ck :
                IF ck.out.kind = "raise"
                THEN [o |-> ck.o, out |-> ck.out, started |-> FALSE]
                ELSE Let(structure_get(lines, ck.o),
                         LAMBDA sg : StartTask(sg, ck.out.val)))

\* anaget_phmodes_at_qpoint up to task.start_and_wait: [o, out, started];
\* out is the q-point of the run, or the exception raised before the task
\* is built
PrepareModes(lines, o, qpoint) ==
    IF qpoint.sel = "none"
    THEN Let(DefaultQpoint(lines, o), LAMBDA dq : ModesAt(lines, dq))
    ELSE ModesAt(lines, [o |-> o, out |-> Return(qpoint)])

\* lines 243-248: the report of the run and the result
FinishModes(p, completed) ==
    IF ~p.started THEN p
    ELSE IF ~completed
         THEN [p EXCEPT !.out = Raises({"TaskException"}, "task")]
         ELSE [p EXCEPT !.out = Return([phbands |-> p.out.val])]

\* the whole call; completed is report.run_completed of the external run
anaget_phmodes_at_qpoint(lines, o, qpoint, completed) ==
    Let(PrepareModes(lines, o, qpoint), LAMBDA p : FinishModes(p, completed))

(***************************************************************************)
(* Becs.__init__                                                           *)
(***************************************************************************)
\* mat.T
Transposed(mat) == [r \in 1..3 |-> [c \in 1..3 |-> mat[c][r]]]

\* BecOf without the transposition
BecAsGiven(mat, order) == mat

\* the block stored for atom i
BecOf(mat, order) == IF order = "f" THEN Transposed(mat) ELSE mat

\* [ok, errs, obj]: the object built, or the AssertionError of line 397
Becs_init(becs_arr, natom, order) ==
    IF Len(becs_arr) # natom
    THEN [ok |-> FALSE, errs |-> {"AssertionError"}, obj |-> <<>>]
    ELSE [ok |-> TRUE, errs |-> {},
          obj |-> [structure |-> [natom |-> natom],
                   becs |-> [i \in 1..natom |-> BecOf(becs_arr[i], order)]]]

(***************************************************************************)
(* The files read.  A file is a six-line preamble, the header section, the *)
(* line that ends it and the blocks of derivatives with their q-point      *)
(* records.                                                                *)
(***************************************************************************)
Preamble ==
    <<"",
      " **** DERIVATIVE DATABASE ****",
      "+DDB, Version number 100401",
      "",
      " usepaw 0",
      "">>

\* the header section of a crystal with one atom; syms is the symrel text
\* of nsym matrices
HeaderSection(nsym, symrel, symafm, tnons) ==
    <<" natom 1",
      " nkpt 1",
      nsym,
      " ecut 2.5D+01",
      " kpt 0.0D+00 0.0D+00 0.0D+00",
      " rprim 1.0 0.0 0.0",
      "  0.0 1.0 0.0",
      "  0.0 0.0 1.0",
      symafm,
      symrel>> \o tnons \o
    <<" xred 0.0 0.0 0.0",
      " znucl 14.0">>

\* identity only
HeaderId ==
    HeaderSection(" nsym 1", " symrel 1 0 0 0 1 0 0 0 1", " symafm 1",
                  <<" tnons 0.0 0.0 0.0">>)

\* identity and the exchange of the first two axes
HeaderSwap ==
    HeaderSection(" nsym 2", " symrel 1 0 0 0 1 0 0 0 1 0 1 0 1 0 0 0 0 1",
                  " symafm 1 1", <<" tnons 0.0 0.0 0.0", "  0.0 0.0 0.0">>)

\* identity and a rotation that mixes the first axis into the second
HeaderShear ==
    HeaderSection(" nsym 2", " symrel 1 0 0 0 1 0 0 0 1 1 -1 0 0 1 0 0 0 -1",
                  " symafm 1 1", <<" tnons 0.0 0.0 0.0", "  0.0 0.0 0.0">>)

HeaderSections == {HeaderId, HeaderSwap, HeaderShear}

EndOfHeader == " No information on the potentials yet"

BlockTitle == " 2nd derivatives (non-stat.) - # elements : 1"

BlockRow == " 1 1 1 1 0.5D+00 0.0D+00"

\* q-point records
QptLines ==
    {" qpt 2.5E-01 0.0 0.0 1.0",
     " qpt 2.50E-01 0.0 0.0 1.0",
     " qpt 0.0 0.0 0.0 1.0",
     " qpt 0.4 -0.5 2.5 1.0"}

\* other lines a file may hold
OtherLines ==
    {"",
     " 1 2.5",
     " 0.5 1",
     " 7",
     " ixc 7",
     " natom 2",
     " znucl 14.0 8.0",
     " tsmear",
     " ecut 2 x",
     " kpt 0 0.5 0",
     " DDB Version 2",
     " Version x",
     "Description of the potentials (KB energies)",
     "qpt 2.5E-01 0.0 0.0 1.0   ",
     " qptn 0.5 0.0 0.0 1.0",
     " qpt1 0.5 0.0 0.0 2.0",
     " nqpt 0.5 0.0 0.0 1.0",
     " qpt 0.5 0.0 0.0"}

\* the number of q-point records of a composed file
MaxQpt == 2

RECURSIVE SeqsUpTo(_, _)
SeqsUpTo(S, n) ==
    IF n = 0 THEN {<<>>}
    ELSE LET shorter == SeqsUpTo(S, n - 1)
         IN shorter \cup {Append(t, x) : t \in {u \in shorter : Len(u) = n - 1}, x \in S}

\* each record of a block: its title, the q-point, one row
RECURSIVE Blocks(_)
Blocks(qs) ==
    IF Len(qs) = 0 THEN <<>>
    ELSE <<BlockTitle, Head(qs), BlockRow>> \o Blocks(Tail(qs))

File(hs, qs) == Preamble \o hs \o <<EndOfHeader>> \o Blocks(qs)

\* well-formed files: every header section with every run of q-point records
ComposedFiles == {File(hs, qs) : hs \in HeaderSections, qs \in SeqsUpTo(QptLines, MaxQpt)}

\* the file the edits start from: one q-point in two blocks, then another
BaseFile ==
    File(HeaderId, <<" qpt 2.5E-01 0.0 0.0 1.0", " qpt 2.5E-01 0.0 0.0 1.0",
                     " qpt 0.0 0.0 0.0 1.0">>)

InsertAt(f, p, l) == SubSeq(f, 1, p - 1) \o <<l>> \o SubSeq(f, p, Len(f))

ReplaceAt(f, p, l) == [f EXCEPT ![p] = l]

DeleteAt(f, p) == SubSeq(f, 1, p - 1) \o SubSeq(f, p + 1, Len(f))

\* the lines of an edit
EditLines == OtherLines \cup {" qpt 2.50E-01 0.0 0.0 1.0", " qpt 0.4 -0.5 2.5 1.0"}

\* the base file with one line inserted, replaced or deleted
EditedFiles ==
    {InsertAt(BaseFile, p, l) : p \in 1..(Len(BaseFile) + 1), l \in EditLines}
    \cup {ReplaceAt(BaseFile, p, l) : p \in 1..Len(BaseFile), l \in EditLines}
    \cup {DeleteAt(BaseFile, p) : p \in 1..Len(BaseFile)}

Files == ComposedFiles \cup EditedFiles

\* the files of a session: well-formed ones with the identity-only header,
\* and three files whose header or q-point records cannot be read
SessionFiles ==
    {File(HeaderId, qs) : qs \in SeqsUpTo(QptLines, MaxQpt)}
    \cup {DeleteAt(BaseFile, 3), DeleteAt(BaseFile, 15),
          InsertAt(BaseFile, Len(BaseFile) + 1, " qpt 0.5 0.0 0.0")}

(***************************************************************************)
(* The state machine: one open DdbFile and the calls made on it.           *)
(***************************************************************************)
VARIABLES
    lines,   \* the content of the file
    ddb,     \* the DdbFile instance
    ret,     \* the last call: [op, arg, out]
    jobs,    \* the external runs started so far
    becs     \* the Becs object last constructed

vars == <<lines, ddb, ret, jobs, becs>>

\* the external runs of one behaviour
MaxJobs == 1

\* integer selections: positions 0..MaxIndex
MaxIndex == 2

Vec(a, b, c) == <<FloatValue(a), FloatValue(b), FloatValue(c)>>

Selections ==
    {None} \cup {IntSel(n) : n \in 0..MaxIndex}
           \cup {VecSel(Vec("0.25", "0", "0")), VecSel(Vec("0.5", "0", "0"))}

NoCall == [op |-> "none", arg |-> None, out |-> Return(<<>>)]

InitOn(files) ==
    /\ lines \in files
    /\ ddb = NewDdb
    /\ ret = NoCall
    /\ jobs = 0
    /\ becs = NoValue

Init == InitOn(SessionFiles)

Call(op, arg, r) ==
    /\ ddb' = r.o
    /\ ret' = [op |-> op, arg |-> arg, out |-> r.out]

GetHeader ==
    \E r \in {header_get(lines, Access(ddb))} :
        /\ Call("header", None, r)
        /\ UNCHANGED <<lines, jobs, becs>>

GetStructure ==
    \E r \in {structure_get(lines, Access(ddb))} :
        /\ Call("structure", None, r)
        /\ UNCHANGED <<lines, jobs, becs>>

GetQpoints ==
    \E r \in {qpoints_get(lines, Access(ddb))} :
        /\ Call("qpoints", None, r)
        /\ UNCHANGED <<lines, jobs, becs>>

GetGuessedNgqpt ==
    \E r \in {guessed_ngqpt_get(lines, Access(ddb))} :
        /\ Call("guessed_ngqpt", None, r)
        /\ UNCHANGED <<lines, jobs, becs>>

GetParams ==
    \E r \in {params_get(lines, Access(ddb))} :
        /\ Call("params", None, r)
        /\ UNCHANGED <<lines, jobs, becs>>

\* a direct call of _read_qpoints
ReadQpoints ==
    \E r \in {read_qpoints(lines, ddb.cursor)} :
        /\ ddb' = [Access(ddb) EXCEPT !.cursor = Len(lines)]
        /\ ret' = [op |-> "read_qpoints", arg |-> None,
                   out |-> IF r.ok THEN Return(r.q) ELSE Raises({r.err}, "none")]
        /\ UNCHANGED <<lines, jobs, becs>>

Qindex ==
    \E q \in Selections \ {None} :
        \E r \in {qindex(lines, Access(ddb), q)} :
            /\ Call("qindex", q, r)
            /\ UNCHANGED <<lines, jobs, becs>>

AnagetPhmodesAtQpoint ==
    \E q \in Selections, completed \in BOOLEAN :
        /\ jobs < MaxJobs
        /\ \E r \in {anaget_phmodes_at_qpoint(lines, Access(ddb), q, completed)} :
            /\ Call("anaget_phmodes_at_qpoint", q, r)
            /\ jobs' = IF r.started THEN jobs + 1 ELSE jobs
            /\ UNCHANGED <<lines, becs>>

Next ==
    \/ GetHeader
    \/ GetStructure
    \/ GetQpoints
    \/ GetGuessedNgqpt
    \/ GetParams
    \/ Qindex
    \/ AnagetPhmodesAtQpoint

\* a session on one open file
Spec == Init /\ [][Next]_vars

\* the accesses to the derived entities of one open file, in any order
NextAccess ==
    \/ GetHeader
    \/ GetStructure
    \/ GetQpoints
    \/ GetGuessedNgqpt
    \/ GetParams

\* the files of the accesses: every header section with runs of two q-point
\* records, and the files whose header, structure or q-points cannot be
\* read (no version line, no symafm, no end of the header section, a
\* q-point record without weight)
AccessFiles ==
    {File(hs, qs) : hs \in HeaderSections,
                    qs \in SeqsUpTo({" qpt 2.5E-01 0.0 0.0 1.0", " qpt 0.0 0.0 0.0 1.0"},
                                    MaxQpt)}
    \cup {DeleteAt(BaseFile, 3), DeleteAt(BaseFile, 15),
          DeleteAt(BaseFile, Len(Preamble) + Len(HeaderId) + 1),
          InsertAt(BaseFile, Len(BaseFile) + 1, " qpt 0.5 0.0 0.0")}

InitAccess == InitOn(AccessFiles)

SpecAccess == InitAccess /\ [][NextAccess]_vars

\* the parsers on every file
InitParse == InitOn(Files)

NextParse ==
    \/ GetHeader
    \/ ReadQpoints
    \/ GetGuessedNgqpt

SpecParse == InitParse /\ [][NextParse]_vars

(***************************************************************************)
(* The construction of Becs objects from the blocks an external run gives. *)
(***************************************************************************)
\* the atoms of a structure
MaxAtoms == 2

Mat(a, b, c) == <<a, b, c>>

\* 3x3 blocks: a symmetric one and one that differs from its transpose
BecBlocks ==
    {Mat(<<1, 0, 0>>, <<0, 1, 0>>, <<0, 0, 1>>),
     Mat(<<1, 2, 3>>, <<4, 5, 6>>, <<7, 8, 9>>)}

\* Becs(becs_arr, structure, order)
NewBecs ==
    \E natom \in 0..MaxAtoms, arr \in SeqsUpTo(BecBlocks, MaxAtoms + 1),
       order \in {"c", "f"} :
        \E r \in {Becs_init(arr, natom, order)} :
            /\ becs' = IF r.ok THEN Cached(r.obj) ELSE becs
            /\ ret' = [op |-> "Becs",
                       arg |-> [becs_arr |-> arr, natom |-> natom, order |-> order],
                       out |-> IF r.ok THEN Return(r.obj)
                               ELSE Raises(r.errs, "assert")]
            /\ UNCHANGED <<lines, ddb, jobs>>

InitBecs == InitOn({BaseFile})

NextBecs == NewBecs

SpecBecs == InitBecs /\ [][NextBecs]_vars

(***************************************************************************)
(* Properties of _read_qpoints                                             *)
(***************************************************************************)
\* the stripped texts of the lines of the file
StrippedLines == {Strip(lines[n]) : n \in 1..Len(lines)}

\* the stripped lines the first loop of _read_qpoints keeps
CandidateTexts == {l \in StrippedLines : IsCandidate(l)}

\* the first line whose stripped text is l
FirstLineOf(l) ==
    CHOOSE n \in 1..Len(lines) :
        Strip(lines[n]) = l /\ \A k \in 1..(n - 1) : Strip(lines[k]) # l

\* the position of l among the candidate texts in order of first occurrence
RankOf(l) == Cardinality({x \in CandidateTexts : FirstLineOf(x) < FirstLineOf(l)}) + 1

\* C1: when _read_qpoints returns, the list has exactly one row per distinct
\* stripped candidate line, in order of first occurrence, and the row of a
\* candidate holds the first three numbers of its text.
C1_OneRowPerDistinctLine ==
    (ret.op = "read_qpoints" /\ ret.out.kind = "return") =>
        /\ Len(ret.out.val) = Cardinality(CandidateTexts)
        /\ \A l \in CandidateTexts :
              ret.out.val[RankOf(l)] = QptRecord(QptText(l)).q

\* C1: _read_qpoints has returned on a file in which one candidate line
\* occurs twice and two candidate lines of different text hold equal numbers:
\* the repeated line gives one row, the two texts give two equal rows.
C1_RepeatedAndReformatted ==
    /\ ret.op = "read_qpoints" /\ ret.out.kind = "return"
    /\ \E n, k \in 1..Len(lines) :
          n # k /\ Strip(lines[n]) = Strip(lines[k]) /\ IsCandidate(Strip(lines[n]))
    /\ \E i, j \in 1..Len(ret.out.val) : i # j /\ ret.out.val[i] = ret.out.val[j]
    /\ Len(ret.out.val) = Cardinality(CandidateTexts)

\* the stripped lines whose first token is exactly the marker
MarkerLines ==
    {l \in StrippedLines : Len(Split(l)) > 0 /\ Head(Split(l)) = QptMarker}

\* the tokens after the marker are numbers, four at least
MarkerLineParses(l) == QptNums(Tail(Split(l))).ok

\* C2: a line is a q-point record exactly when its first token is the
\* marker: _read_qpoints returns one row per distinct line whose first token
\* is the marker when the numbers after each marker parse, and raises only
\* when those of one of them do not.
C2_CandidateIsMarkerToken ==
    ret.op = "read_qpoints" =>
        IF \A l \in MarkerLines : MarkerLineParses(l)
        THEN /\ ret.out.kind = "return"
             /\ Len(ret.out.val) = Cardinality(MarkerLines)
        ELSE ret.out.kind = "raise"

(***************************************************************************)
(* Properties of _parse_header                                             *)
(***************************************************************************)
\* C3: a line whose first token parses as a number never opens a key: no
\* key of a returned header parses as a number.
C3_NumericLineNeverKey ==
    (ret.op = "header" /\ ret.out.kind = "return") =>
        \A k \in DOMAIN ret.out.val : ~IsFloat(k)

SentinelLines == {n \in 1..Len(lines) : Strip(lines[n]) \in HeaderEnd}

\* the first line that ends the header, or the line after the last one
FirstSentinel ==
    IF SentinelLines = {} THEN Len(lines) + 1
    ELSE CHOOSE n \in SentinelLines : \A k \in SentinelLines : n <= k

\* the lines strictly after the first six and strictly before the sentinel
HeaderBody == SubSeq(lines, HeaderStart + 1, FirstSentinel - 1)

\* the header of a file that has the same body after six lines that state
\* version 0 and nothing else
BodyHeader ==
    parse_header(<<"Version 0", "", "", "", "", "">> \o HeaderBody \o <<EndOfHeader>>, 0)

\* the lines before the sentinel that hold the version declaration
VersionLines == {n \in 1..(FirstSentinel - 1) : Contains(lines[n], "Version")}

LastVersionLine == CHOOSE n \in VersionLines : \A k \in VersionLines : k <= n

\* a header without its version
Content(h) == [k \in DOMAIN h \ {"version"} |-> h[k]]

Scanned == ScanHeader(lines, 0)

\* the exception types of Python that report text that cannot be parsed
ParseErrorTypes == {"ValueError"}

\* C5: a file without a version declaration, or with a line after the
\* preamble that is neither a key with values nor a continuation of an open
\* key, fails with a parse error and no other kind of error.
C5_MalformedIsParseError ==
    (ret.op = "header" /\ (Scanned.status = "raise" \/ ~Scanned.hasversion)) =>
        /\ ret.out.kind = "raise"
        /\ ret.out.errs \subseteq ParseErrorTypes

\* the values accumulated for key k in keyvals: those of its last occurrence
Accumulated(keyvals, k) == keyvals[LastOf(keyvals, k)].vals

\* the element of the accumulated values that element j of the array of key
\* k holds: symrel has each 3x3 block transposed
SourceIndex(k, j) ==
    IF k = "symrel"
    THEN 9 * ((j - 1) \div 9) + 3 * ((j - 1) % 3) + (((j - 1) % 9) \div 3) + 1
    ELSE j

\* C6 as stated: every key of a returned header, the reshaped ones included,
\* is a scalar when exactly one value was accumulated for it and an array of
\* all its values otherwise.
C6_CollapseEveryKey ==
    (ret.op = "header" /\ ret.out.kind = "return") =>
        LET keyvals == Scanned.keyvals
        IN \A k \in KeysOf(keyvals) :
              LET vals == Accumulated(keyvals, k)
              IN IF Len(vals) = 1
                 THEN ret.out.val[k].kind = "scalar"
                 ELSE /\ ret.out.val[k].kind # "scalar"
                      /\ Len(ret.out.val[k].data) = Len(vals)

\* C6 amended: every key other than the six reshaped ones is the scalar of
\* its one value or the list of its values in file order; each of the six
\* reshaped keys is an array whatever the number of its values, of as many
\* elements as values, each converted to the type of the array, in file
\* order but for the transposition of the blocks of symrel.
C6_CollapseExceptArrays ==
    (ret.op = "header" /\ ret.out.kind = "return") =>
        LET keyvals == Scanned.keyvals
        IN /\ \A k \in KeysOf(keyvals) \ ArrayKeys :
                 LET vals == Accumulated(keyvals, k)
                 IN ret.out.val[k] =
                       IF Len(vals) = 1 THEN Scalar(vals[1]) ELSE PyList(vals)
           /\ \A k \in ArrayKeys :
                 LET vals == Accumulated(keyvals, k)
                     arr == ret.out.val[k]
                 IN /\ arr.kind = "ndarray"
                    /\ Len(arr.data) = Len(vals)
                    /\ Product(arr.shape) = Len(vals)
                    /\ \A j \in 1..Len(vals) :
                          /\ arr.data[j].t =
                                (IF k \in {"symrel", "znucl"} THEN "int" ELSE "float")
                          /\ arr.data[j] = AsType(arr.data[j].t, vals[SourceIndex(k, j)])

\* C6: a header has been returned in which the single value of znucl is an
\* array of one element, the single value of ecut is a scalar, the two
\* values of symafm are a list, and a block of symrel differs from the
\* values as written.
C6_SingleZnuclIsArray ==
    /\ ret.op = "header" /\ ret.out.kind = "return"
    /\ ret.out.val["znucl"].kind = "ndarray"
    /\ ret.out.val["znucl"].shape = <<1>>
    /\ ret.out.val["ecut"].kind = "scalar"
    /\ ret.out.val["symafm"].kind = "list"
    /\ LET keyvals == Scanned.keyvals
       IN /\ Len(Accumulated(keyvals, "znucl")) = 1
          /\ \E j \in 1..Len(Accumulated(keyvals, "symrel")) :
                ret.out.val["symrel"].data[j] # Accumulated(keyvals, "symrel")[j]

(***************************************************************************)
(* Properties of guessed_ngqpt                                             *)
(***************************************************************************)
\* the absolute coordinates on axis ax of the union of the stars of the
\* q-points the instance holds
StarCoords(ax) ==
    {DecAbs(rotate_k(ddb.structure.val.spacegroup[a], FracCoords(ddb.qpoints.val[b]))[ax]) :
        a \in 1..Len(ddb.structure.val.spacegroup), b \in 1..Len(ddb.qpoints.val)}

NonZeroCoords(ax) == {c \in StarCoords(ax) : c.m # 0}

\* the smallest coordinate of a set that is not empty
Smallest(S) == CHOOSE c \in S : \A d \in S : ~DecLess(d, c)

AbsInt(n) == IF n < 0 THEN -n ELSE n

\* twice the distance of n * c to 1, and c, both scaled to integers
TwiceOff(n, c) ==
    IF c.e <= 0 THEN 2 * AbsInt(n * c.m - Pow10(-c.e))
    ELSE 2 * AbsInt(n * c.m * Pow10(c.e) - 1)

Scaled(c) == IF c.e <= 0 THEN c.m ELSE c.m * Pow10(c.e)

\* n is the integer nearest to 1 / c, the even one of two equally near
NearestToInverse(n, c) ==
    /\ TwiceOff(n, c) <= Scaled(c)
    /\ TwiceOff(n, c) = Scaled(c) => n % 2 = 0

\* the component of the mesh on an axis
MeshRule(n, ax) ==
    IF NonZeroCoords(ax) = {} THEN n = 1
    ELSE \/ n >= 1 /\ NearestToInverse(n, Smallest(NonZeroCoords(ax)))
         \/ n = 1 /\ NearestToInverse(0, Smallest(NonZeroCoords(ax)))

\* C7: a mesh guessed_ngqpt returns has, on each axis, 1 when every
\* coordinate of the union of the stars is zero on that axis, and otherwise
\* the integer nearest to 1 / m, m the smallest non-zero absolute coordinate
\* on that axis, with 1 in place of 0; every component is at least 1; the
\* single q-point (0.25, 0, 0) with the identity alone gives (4, 1, 1).
C7_MeshPerAxis ==
    (ret.op = "guessed_ngqpt" /\ ret.out.kind = "return") =>
        /\ Len(ddb.qpoints.val) > 0
        /\ \A ax \in 1..3 : ret.out.val[ax] >= 1 /\ MeshRule(ret.out.val[ax], ax)
        /\ (/\ ddb.qpoints.val = <<Vec("0.25", "0", "0")>>
            /\ ddb.structure.val.spacegroup = <<<<<<1, 0, 0>>, <<0, 1, 0>>, <<0, 0, 1>>>>>>)
           => ret.out.val = <<4, 1, 1>>

\* C7: guessed_ngqpt has returned (4, 1, 1) for the single q-point
\* (0.25, 0, 0) of a crystal whose only rotation is the identity.
C7_QuarterGivesFour ==
    /\ ret.op = "guessed_ngqpt" /\ ret.out.kind = "return"
    /\ ddb.qpoints.val = <<Vec("0.25", "0", "0")>>
    /\ Len(ddb.structure.val.spacegroup) = 1
    /\ ret.out.val = <<4, 1, 1>>

\* C8: guessed_ngqpt on an instance whose list of q-points is empty raises
\* the ValueError of the minimum of a zero-size array and stores no mesh;
\* _read_qpoints on a file without a q-point record returns the empty list.
C8_EmptyListNoMesh ==
    /\ (ret.op = "guessed_ngqpt" /\ ddb.qpoints.set /\ Len(ddb.qpoints.val) = 0) =>
          /\ ret.out.kind = "raise"
          /\ ret.out.errs = {"ValueError"}
          /\ ~ddb.guessed_ngqpt.set
    /\ (ret.op = "read_qpoints" /\ CandidateTexts = {}) => ret.out = Return(<<>>)

\* C8: guessed_ngqpt has raised on an instance that holds an empty list of
\* q-points, read from a file without a q-point record.
C8_EmptyListRaised ==
    /\ ret.op = "guessed_ngqpt" /\ ret.out.kind = "raise"
    /\ ddb.qpoints.set /\ Len(ddb.qpoints.val) = 0
    /\ CandidateTexts = {}

(***************************************************************************)
(* Properties of anaget_phmodes_at_qpoint                                  *)
(***************************************************************************)
\* the call failed at the raise statement named site, before the task
FailsAt(site) == ret.out.kind = "raise" /\ ret.out.site = site

\* C9: on an instance that holds its list of q-points, a call without a
\* q-point when the list has more than one fails as ambiguous, and a call
\* with a q-point that is not in the list, or with an integer position
\* outside the list, fails as not found; the task is not started.
C9_InvalidSelectionFails ==
    (ret.op = "anaget_phmodes_at_qpoint" /\ ddb.qpoints.set) =>
        /\ (ret.arg.sel = "none" /\ Len(ddb.qpoints.val) > 1) => FailsAt("ambiguous")
        /\ (ret.arg.sel = "vec" /\ ~InSeq(ret.arg.v, ddb.qpoints.val)) => FailsAt("notfound")
        /\ (ret.arg.sel = "int" /\ ret.arg.n >= Len(ddb.qpoints.val)) => FailsAt("notfound")

Entities == {"header", "structure", "qpoints", "guessed_ngqpt", "params"}

\* the entities a lazy_property stores on the instance
Stored == {"header", "structure", "qpoints", "guessed_ngqpt"}

\* an access to entity e on the instance o
AccessOf(e, o) ==
    CASE e = "header" -> header_get(lines, o)
      [] e = "structure" -> structure_get(lines, o)
      [] e = "qpoints" -> qpoints_get(lines, o)
      [] e = "guessed_ngqpt" -> guessed_ngqpt_get(lines, o)
      [] e = "params" -> params_get(lines, o)

\* the outcome of an access to e made first on the file just opened
FirstAccess(e) == AccessOf(e, NewDdb).out

\* C11: in a step that accesses an entity, no body runs that has run
\* before on this instance (each entity is computed at most once); the
\* outcome is the outcome of an access made first on the file just opened
\* (a later access returns the value of the first, whatever was accessed
\* before); and an access to guessed_ngqpt leaves the stored q-points and
\* the stored header as they were.
C11_ComputedAtMostOnce ==
    [][/\ \A e \in ddb'.ran : e \notin ddb.computed
       /\ ret'.op \in Entities => ret'.out = FirstAccess(ret'.op)
       /\ ret'.op = "guessed_ngqpt" =>
             /\ ddb.qpoints.set => ddb'.qpoints = ddb.qpoints
             /\ ddb.header.set => ddb'.header = ddb.header]_vars

\* C11 as amended: the body of header, structure, qpoints or guessed_ngqpt
\* runs only while the instance stores no value for it; an access that
\* returns stores the value, a stored value never changes, and an access to
\* an entity with a stored value returns it without running any body or
\* moving the cursor; an access that raises stores nothing for the entity;
\* every access to params runs its body; the outcome of every access is the
\* outcome of an access made first on the file just opened; and an access
\* to guessed_ngqpt leaves the stored q-points and header as they were.
C11_StoredOnceParamsRebuilt ==
    [][/\ \A e \in ddb'.ran \cap Stored : ~ddb[e].set
       /\ \A e \in Stored : ddb[e].set => ddb'[e] = ddb[e]
       /\ ret'.op \in Stored =>
             /\ ret'.out.kind = "return" => ddb'[ret'.op] = Cached(ret'.out.val)
             /\ ret'.out.kind = "raise" => ~ddb'[ret'.op].set
             /\ ddb[ret'.op].set =>
                   /\ ret'.out = Return(ddb[ret'.op].val)
                   /\ ddb'.ran = {}
                   /\ ddb'.cursor = ddb.cursor
       /\ ret'.op = "params" => "params" \in ddb'.ran
       /\ ret'.op \in Entities => ret'.out = FirstAccess(ret'.op)
       /\ ret'.op = "guessed_ngqpt" =>
             /\ ddb.qpoints.set => ddb'.qpoints = ddb.qpoints
             /\ ddb.header.set => ddb'.header = ddb.header]_vars

\* C11: header has been returned from the stored value, without running a
\* body, on an instance that has computed every entity; the q-points were
\* the last thing read from the file, after the header had been parsed.
C11_HeaderAgainAfterAll ==
    /\ ret.op = "header" /\ ret.out = Return(ddb.header.val)
    /\ ddb.ran = {}
    /\ ddb.computed = Entities
    /\ ddb.guessed_ngqpt.set
    /\ Len(ddb.qpoints.val) > 0
    /\ ddb.cursor = Len(lines)
====
